---- MODULE Spec2Model ----
(***************************************************************************)
(* State-machine model of SIPDBot (src/bot_sipd.py): one bot instance, a   *)
(* single caller that invokes login_manual, login_with_env,                *)
(* login_with_cookies, close_browser and download_realisasi one at a time. *)
(* Every Playwright call is an environment step that may succeed, time out *)
(* or raise another error.  A call that ends is observed by the caller     *)
(* through `ret` (normal return of None, or the exception that escaped)    *)
(* and through what was printed (`msg`, `results`).                        *)
(***************************************************************************)
EXTENDS Integers, Sequences, FiniteSets

\* ---------------------------------------------------------------- bounds
MaxLaunch == 2   \* browsers the environment lets one instance launch
MaxBelow  == 1   \* how far below month 1 a start_month may lie
MaxAbove  == 1   \* how far above month 12 a start_month may lie
MaxSpan   == 3   \* longest period range end_month - start_month + 1
MaxDay    == 1   \* calendar days that may pass during the run
LifecycleSpan == 1  \* longest period range when calls of all kinds are mixed

\* ------------------------------------------------------ program constants
FirstMonth == 1
LastMonth  == 12

None == 0        \* the value of a field that holds no handle

VARIABLES
  browser, context, page,   \* self.browser, self.context, self.page (None or handle id)
  launched,                 \* number of browsers launched so far (ids 1..launched)
  openB, openC, openP,      \* ids of the browsers, contexts, pages still open
  pc,                       \* position of the caller: "idle" or a step of the running call
  op,                       \* the call that runs or ran last ("none" before the first)
  ret,                      \* what the caller observes when the call ends
  fail,                     \* why the call failed ("none" if it did not)
  msg,                      \* the error message printed by the call ("none" if none)
  prompts,                  \* input() prompts issued by the call
  trail,                    \* what the running login call has done so far, in order
  auth,                     \* the session: "none", "cookies_injected" or "verified"
  entry,                    \* the instance's fields as they were when the call began
  prev,                     \* the call before this one: its op and its failure
  cookieSrc,                \* content of cookies.json seen by login_with_cookies
  start_month, end_month,   \* arguments of download_realisasi
  i,                        \* loop variable of download_realisasi
  results,                  \* per-period outcomes reported so far, in order
  resp,                     \* the environment's answers for each period handled
  filterLog,                \* filter interactions of the call, in order
  triggers,                 \* periods for which the Download button was clicked
  handle,                   \* the download handle of the current period
  closes,                   \* close() calls close_browser attempted, in order
  today                     \* the calendar day get_current_date() reports

sessVars == <<browser, context, page, launched, openB, openC, openP>>
callVars == <<pc, op, ret, fail, msg, prompts, trail, entry, prev, cookieSrc>>
argVars  == <<start_month, end_month, i>>
logVars  == <<results, resp, filterLog, triggers, handle>>
dlVars   == <<argVars, logVars>>
vars     == <<sessVars, callVars, dlVars, closes, today, auth>>

Logins == {"login_manual", "login_with_env", "login_with_cookies"}

Pending    == [kind |-> "pending", val |-> "none"]
ReturnNone == [kind |-> "return",  val |-> "None"]
Raised(e)  == [kind |-> "raise",   val |-> e]

Snapshot == [browser |-> browser, context |-> context, page |-> page,
             launched |-> launched, openB |-> openB, openC |-> openC,
             openP |-> openP, auth |-> auth]

Init ==
  /\ browser = None /\ context = None /\ page = None
  /\ launched = 0
  /\ openB = {} /\ openC = {} /\ openP = {}
  /\ pc = "idle" /\ op = "none" /\ ret = Pending /\ fail = "none"
  /\ msg = "none" /\ prompts = 0 /\ trail = <<>>
  /\ auth = "none"
  /\ entry = Snapshot
  /\ prev = [op |-> "none", fail |-> "none"]
  /\ cookieSrc = "none"
  /\ start_month = 1 /\ end_month = 1 /\ i = 1
  /\ results = <<>> /\ resp = <<>> /\ filterLog = <<>> /\ triggers = <<>>
  /\ handle = "none"
  /\ closes = <<>>
  /\ today = 0

\* ------------------------------------------------------------- call frame
\* A call begins: remember the previous call, snapshot the fields, clear what
\* the previous call left for its caller to observe.
Begin(o, first) ==
  /\ pc = "idle"
  /\ pc' = first
  /\ prev' = [op |-> op, fail |-> fail]
  /\ op' = o
  /\ ret' = Pending /\ fail' = "none" /\ msg' = "none" /\ prompts' = 0
  /\ trail' = <<>>
  /\ entry' = Snapshot
  /\ results' = <<>> /\ resp' = <<>> /\ filterLog' = <<>> /\ triggers' = <<>>
  /\ handle' = "none"
  /\ closes' = <<>>
  /\ UNCHANGED <<sessVars, today, auth>>

\* The call ends with an exception escaping to the caller.
Raise(e, why) ==
  /\ pc' = "idle" /\ ret' = Raised(e) /\ fail' = why

\* The call ends by falling off the end of the function.
Return(why) ==
  /\ pc' = "idle" /\ ret' = ReturnNone /\ fail' = why

PageOpen == page # None /\ page \in openP

\* ------------------------------------------------------ _initialize_browser
\* _initialize_browser (lines 45-50): launch, then new_context, then new_page;
\* each assignment happens only if the call on its right-hand side returned.
\* `stage` is how far the environment lets it get.
InitStages == {"launch_fails", "context_fails", "page_fails", "ok"}

InitializeBrowser(stage) ==
  LET id == launched + 1 IN
  /\ launched < MaxLaunch
  /\ IF stage = "launch_fails"
       THEN UNCHANGED <<launched, browser, openB>>
       ELSE launched' = id /\ browser' = id /\ openB' = openB \cup {id}
  /\ IF stage \in {"page_fails", "ok"}
       THEN context' = id /\ openC' = openC \cup {id}
       ELSE UNCHANGED <<context, openC>>
  /\ IF stage = "ok"
       THEN page' = id /\ openP' = openP \cup {id}
       ELSE UNCHANGED <<page, openP>>

\* `if not self.page:`   (lines 58, 90, 136)
NoPage_Always == TRUE
NoPage_OrClosed == page = None \/ page \notin openP
NoPage == page = None

\* `if not self.page: self._initialize_browser()` (lines 58-59, 90-91, 136-137),
\* which is outside every try block: a failure escapes to the caller.
EnsureBrowser(next) ==
  IF ~NoPage
    THEN /\ pc' = next
         /\ UNCHANGED <<sessVars, ret, fail>>
    ELSE \E stage \in InitStages :
           /\ InitializeBrowser(stage)
           /\ IF stage = "ok"
                THEN pc' = next /\ UNCHANGED <<ret, fail>>
                ELSE Raise("Error", "launch")

\* What a Playwright call on self.page can answer: on a closed page only an
\* error; on an open page it may succeed, time out or fail otherwise.
Answers == IF PageOpen THEN {"ok", "timeout", "error"} ELSE {"error"}

ExcOf(a) == IF a = "timeout" THEN "TimeoutError" ELSE "Error"

\* ------------------------------------------------------------ login_manual
Call_login_manual ==
  /\ page # None \/ launched < MaxLaunch
  /\ Begin("login_manual", "lm_init")
  /\ UNCHANGED cookieSrc
  /\ UNCHANGED <<start_month, end_month, i>>

LM_Init ==
  /\ pc = "lm_init"
  /\ EnsureBrowser("lm_goto")
  /\ UNCHANGED <<op, msg, prompts, trail, entry, prev, cookieSrc, dlVars, closes, today, auth>>

\* One step of a login done: the trail grows by it.
Did(step) == trail' = Append(trail, step)

\* input(...)   (lines 66, 116): the call blocks until the human presses Enter.
Prompt_Twice ==
  /\ prompts' = prompts + 2
  /\ Did("prompt")

Prompt ==
  /\ prompts' = prompts + 1
  /\ Did("prompt")

\* menu_link.wait_for(timeout=120_000)   (lines 68-69, 119-120): the wait for
\* the post-login landmark, which verifies the session when it succeeds.
LandmarkWait ==
  /\ Did("landmark")
  /\ \E a \in Answers :
       CASE a = "ok"      -> Return("none") /\ auth' = "verified"
         [] a = "timeout" -> Raise("TimeoutError", "landmark") /\ UNCHANGED auth
         [] OTHER         -> Raise("Error", "other") /\ UNCHANGED auth

\* page.goto(_URL_LOGIN); page.bring_to_front()   (lines 61-62)
LM_Goto ==
  /\ pc = "lm_goto"
  /\ \E a \in Answers :
       IF a = "ok" THEN pc' = "lm_prompt" /\ Did("goto") /\ UNCHANGED <<ret, fail>>
                   ELSE Raise(ExcOf(a), "navigation") /\ UNCHANGED trail
  /\ UNCHANGED <<sessVars, op, msg, prompts, entry, prev, cookieSrc, dlVars, closes, today, auth>>

\* input("Press Enter to continue...")   (lines 64-66): blocks for the human.
LM_Prompt ==
  /\ pc = "lm_prompt"
  /\ Prompt
  /\ pc' = "lm_landmark"
  /\ UNCHANGED <<sessVars, op, ret, fail, msg, entry, prev, cookieSrc, dlVars, closes, today, auth>>

\* menu_link.wait_for(timeout=120_000)   (lines 68-69)
LM_Landmark ==
  /\ pc = "lm_landmark"
  /\ LandmarkWait
  /\ UNCHANGED <<sessVars, op, msg, prompts, entry, prev, cookieSrc, dlVars, closes, today>>

\* ---------------------------------------------------------- login_with_env
Call_login_with_env ==
  /\ page # None \/ launched < MaxLaunch
  /\ Begin("login_with_env", "le_init")
  /\ UNCHANGED cookieSrc
  /\ UNCHANGED <<start_month, end_month, i>>

LE_Init ==
  /\ pc = "le_init"
  /\ EnsureBrowser("le_goto")
  /\ UNCHANGED <<op, msg, prompts, trail, entry, prev, cookieSrc, dlVars, closes, today, auth>>

\* page.goto(_URL_LOGIN)   (line 94)
LE_Goto ==
  /\ pc = "le_goto"
  /\ \E a \in Answers :
       IF a = "ok" THEN pc' = "le_form" /\ Did("goto") /\ UNCHANGED <<ret, fail>>
                   ELSE Raise(ExcOf(a), "navigation") /\ UNCHANGED trail
  /\ UNCHANGED <<sessVars, op, msg, prompts, entry, prev, cookieSrc, dlVars, closes, today, auth>>

\* the login form: username, password, Enter   (lines 97-104)
LE_Form ==
  /\ pc = "le_form"
  /\ \E a \in Answers :
       IF a = "ok" THEN pc' = "le_card" /\ Did("form") /\ UNCHANGED <<ret, fail>>
                   ELSE Raise(ExcOf(a), "form") /\ UNCHANGED trail
  /\ UNCHANGED <<sessVars, op, msg, prompts, entry, prev, cookieSrc, dlVars, closes, today, auth>>

\* what follows the account card in login_with_env   (lines 112-116)
LE_AfterCard_Landmark == "le_landmark"
LE_AfterCard == "le_prompt"

\* card_account.wait_for(); btn_account.click()   (lines 107-112)
LE_Card ==
  /\ pc = "le_card"
  /\ \E a \in Answers :
       CASE a = "ok"      -> pc' = LE_AfterCard /\ Did("card") /\ UNCHANGED <<ret, fail>>
         [] a = "timeout" -> Raise("TimeoutError", "account_card") /\ UNCHANGED trail
         [] OTHER         -> Raise("Error", "other") /\ UNCHANGED trail
  /\ UNCHANGED <<sessVars, op, msg, prompts, entry, prev, cookieSrc, dlVars, closes, today, auth>>

\* page.bring_to_front(); input(...)   (lines 115-116)
LE_Prompt ==
  /\ pc = "le_prompt"
  /\ \E a \in Answers :
       IF a = "ok"
         THEN Prompt /\ pc' = "le_landmark" /\ UNCHANGED <<ret, fail>>
         ELSE Raise(ExcOf(a), "other") /\ UNCHANGED <<prompts, trail>>
  /\ UNCHANGED <<sessVars, op, msg, entry, prev, cookieSrc, dlVars, closes, today, auth>>

\* menu_link.wait_for(timeout=120_000)   (lines 119-120)
LE_Landmark ==
  /\ pc = "le_landmark"
  /\ LandmarkWait
  /\ UNCHANGED <<sessVars, op, msg, prompts, entry, prev, cookieSrc, dlVars, closes, today>>

\* ------------------------------------------------------ login_with_cookies
CookieSources == {"missing", "invalid_json", "not_a_cookie_list", "valid"}

Call_login_with_cookies ==
  /\ page # None \/ launched < MaxLaunch
  /\ Begin("login_with_cookies", "lc_init")
  /\ cookieSrc' \in CookieSources
  /\ UNCHANGED <<start_month, end_month, i>>

LC_Init ==
  /\ pc = "lc_init"
  /\ EnsureBrowser("lc_load")
  /\ UNCHANGED <<op, msg, prompts, trail, entry, prev, cookieSrc, dlVars, closes, today, auth>>

\* except FileNotFoundError: print(...)   (lines 146-147)
ExceptFileNotFound ==
  /\ msg' = "cookies_not_found"
  /\ Return("cookie_missing")

\* except json.JSONDecodeError: print(...)   (lines 148-149)
ExceptJSONDecode ==
  /\ msg' = "invalid_json"
  /\ Return("cookie_format")

\* except Exception as e: print(...)   (lines 150-151)
ExceptCookieOther(why) ==
  /\ msg' = "unexpected"
  /\ Return(why)

\* open("cookies.json"); json.load(f); context.add_cookies(cookies)  (lines 140-142)
\* add_cookies rejects what is not a list of cookies, and fails on a closed context.
LC_Load ==
  /\ pc = "lc_load"
  /\ CASE cookieSrc = "missing"           -> ExceptFileNotFound
       [] cookieSrc = "invalid_json"      -> ExceptJSONDecode
       [] cookieSrc = "not_a_cookie_list" -> ExceptCookieOther("cookie_format")
       [] OTHER ->
            \E a \in (IF context \in openC THEN {"ok", "error"} ELSE {"error"}) :
              IF a = "ok"
                THEN pc' = "lc_goto" /\ UNCHANGED <<ret, fail, msg>>
                ELSE ExceptCookieOther("other")
  /\ UNCHANGED <<sessVars, op, prompts, trail, entry, prev, cookieSrc, dlVars, closes, today, auth>>

\* The end of the try block (lines 144-145): nothing follows goto, the
\* landmark is not awaited and the injected cookies stay unverified.
LC_AfterGoto_Waits ==
  /\ Did("landmark")
  /\ auth' = "verified"
  /\ Return("none")

LC_AfterGoto ==
  /\ UNCHANGED trail
  /\ auth' = (IF auth = "verified" THEN "verified" ELSE "cookies_injected")
  /\ Return("none")

\* page.goto(_URL_LOGIN), inside the try   (line 144)
LC_Goto ==
  /\ pc = "lc_goto"
  /\ \E a \in Answers :
       IF a = "ok" THEN LC_AfterGoto /\ UNCHANGED msg
                   ELSE ExceptCookieOther("navigation") /\ UNCHANGED <<trail, auth>>
  /\ UNCHANGED <<sessVars, op, prompts, entry, prev, cookieSrc, dlVars, closes, today>>

\* ----------------------------------------------------------- close_browser
\* Playwright's close() on a context or browser that is already closed returns
\* without an error; on an open one it closes it (and what it owns), or fails.
Call_close_browser ==
  /\ Begin("close_browser", "cb_context")
  /\ UNCHANGED cookieSrc
  /\ UNCHANGED <<start_month, end_month, i>>

\* What close() answers for the handle h held in a field, `open` being the
\* handles of its kind that are open.  None has no close().
CloseAnswers(h, open) ==
  IF h = None THEN {"attribute_error"}
  ELSE IF h \in open THEN {"ok", "error"} ELSE {"already_closed"}

\* `if self.context:`   (line 157)
HasContext_Always == TRUE
HasContext == context # None

\* `if self.browser:`   (line 159)
HasBrowser == browser # None

\* if self.context: self.context.close()   (lines 157-158), not in a try
CB_Context ==
  /\ pc = "cb_context"
  /\ IF ~HasContext
       THEN pc' = "cb_browser" /\ UNCHANGED <<openC, openP, ret, fail, closes>>
       ELSE /\ closes' = Append(closes, "context")
            /\ \E a \in CloseAnswers(context, openC) :
                 CASE a = "ok" ->
                        /\ openC' = openC \ {context}
                        /\ openP' = openP \ {context}
                        /\ pc' = "cb_browser"
                        /\ UNCHANGED <<ret, fail>>
                   [] a = "already_closed" ->
                        /\ pc' = "cb_browser"
                        /\ UNCHANGED <<openC, openP, ret, fail>>
                   [] a = "attribute_error" ->
                        /\ Raise("AttributeError", "close_context")
                        /\ UNCHANGED <<openC, openP>>
                   [] OTHER ->
                        /\ Raise("Error", "close_context")
                        /\ UNCHANGED <<openC, openP>>
  /\ UNCHANGED <<browser, context, page, launched, openB>>
  /\ UNCHANGED <<op, msg, prompts, trail, entry, prev, cookieSrc, dlVars, today, auth>>

\* if self.browser: self.browser.close()   (lines 159-160)
CB_Browser ==
  /\ pc = "cb_browser"
  /\ IF ~HasBrowser
       THEN Return("none") /\ UNCHANGED <<openB, openC, openP, closes>>
       ELSE /\ closes' = Append(closes, "browser")
            /\ \E a \in CloseAnswers(browser, openB) :
                 CASE a = "ok" ->
                        /\ openB' = openB \ {browser}
                        /\ openC' = openC \ {browser}
                        /\ openP' = openP \ {browser}
                        /\ Return("none")
                   [] a = "already_closed" ->
                        /\ Return("none")
                        /\ UNCHANGED <<openB, openC, openP>>
                   [] a = "attribute_error" ->
                        /\ Raise("AttributeError", "close_browser")
                        /\ UNCHANGED <<openB, openC, openP>>
                   [] OTHER ->
                        /\ Raise("Error", "close_browser")
                        /\ UNCHANGED <<openB, openC, openP>>
  /\ UNCHANGED <<browser, context, page, launched>>
  /\ UNCHANGED <<op, msg, prompts, trail, entry, prev, cookieSrc, dlVars, today, auth>>

\* ------------------------------------------------------ download_realisasi
\* The ranges a caller passes: any start from below month 1 to above month 12,
\* any end from an empty range (end < start) to `span` periods.
StartMonths == (FirstMonth - MaxBelow) .. (LastMonth + MaxAbove)
EndMonths(s, span) == (s - 2) .. (s + span - 1)

\* get_month_name(i) (src.utils): a name for the months 1..12, IndexError otherwise.
ValidMonth(m) == m \in FirstMonth .. LastMonth

\* download_dir and download_name (lines 214-218): the directory is named by
\* the date read for this period, the file by the year token and the period.
OutputPath(date, m) == <<"Laporan Realisasi", date, 2024, m>>
NoPath == <<>>

Call_download_realisasi(starts, span) ==
  /\ Begin("download_realisasi", "dl_goto")
  /\ \E s \in starts : \E e \in EndMonths(s, span) :
       start_month' = s /\ end_month' = e /\ i' = s
  /\ UNCHANGED cookieSrc

\* A page-load timeout that is reported and then ignored.
PageTimeoutIgnored(why) ==
  /\ msg' = "page_load_timed_out"
  /\ pc' = "dl_skpd" /\ fail' = why /\ UNCHANGED ret

\* except PlaywrightTimeoutError: print("Page load timed out")   (lines 241-242)
ExceptPageTimeout(why) ==
  /\ msg' = "page_load_timed_out"
  /\ Return(why)

\* A critical error that is left to the caller.
CriticalPropagates(why) ==
  /\ UNCHANGED msg
  /\ Raise("Error", why)

\* except Exception: print("Critical error occurred")   (lines 244-245)
ExceptCritical(why) ==
  /\ msg' = "critical"
  /\ Return(why)

OuterExcept(a, why) ==
  IF a = "timeout" THEN ExceptPageTimeout(why) ELSE ExceptCritical(why)

\* page.goto(realisasi); menu_title.wait_for()   (lines 182-184).  With page
\* None the attribute access raises AttributeError, caught at line 244.
DL_Goto ==
  /\ pc = "dl_goto"
  /\ IF page = None
       THEN ExceptCritical("navigation")
       ELSE \E a \in Answers :
              IF a = "ok" THEN pc' = "dl_skpd" /\ UNCHANGED <<ret, fail, msg>>
                          ELSE OuterExcept(a, "navigation")
  /\ UNCHANGED <<sessVars, op, prompts, trail, entry, prev, cookieSrc, dlVars, closes, today, auth>>

\* What a click on the all-units control (`.first`, line 187) and on the
\* period control (`.nth(1)`, line 198) adds to the filter interactions.
UnitsFilterEntry == <<"skpd", 0>>
PeriodFilterEntry_First(m) == <<"skpd", 0>>
PeriodFilterEntry(m) == <<"bulan", m>>

\* the all-units filter: wait_for, click, type, Enter   (lines 187-191).  A
\* failure is caught by the outer handlers; it may come before the click or
\* after it.
DL_Skpd ==
  /\ pc = "dl_skpd"
  /\ \E a \in Answers :
       IF a = "ok"
         THEN /\ filterLog' = Append(filterLog, UnitsFilterEntry)
              /\ pc' = "dl_loop"
              /\ UNCHANGED <<ret, fail, msg>>
         ELSE /\ \E clicked \in BOOLEAN :
                   filterLog' = IF clicked THEN Append(filterLog, UnitsFilterEntry)
                                           ELSE filterLog
              /\ OuterExcept(a, "units_filter")
  /\ UNCHANGED <<sessVars, op, prompts, trail, entry, prev, cookieSrc, argVars,
                 results, resp, triggers, handle, closes, today, auth>>

\* range(start_month, end_month + 1)   (line 193): is i still in the range?
InRange_OneMore(m) == m <= end_month + 1
InRange(m) == m <= end_month

\* for i in range(start_month, end_month + 1)   (line 193)
DL_Loop ==
  /\ pc = "dl_loop"
  /\ IF InRange(i)
       THEN pc' = "dl_bulan" /\ UNCHANGED <<ret, fail>>
       ELSE Return("none")
  /\ UNCHANGED <<sessVars, op, msg, prompts, trail, entry, prev, cookieSrc, dlVars, closes, today, auth>>

Record(kind, path) ==
  results' = Append(results, [period |-> i, kind |-> kind, path |-> path])

\* the end of one iteration: the loop variable takes the next value
NextPeriod ==
  /\ i' = i + 1
  /\ pc' = "dl_loop"
  /\ UNCHANGED <<ret, fail, msg>>

\* A failure that ends up in the handler of line 237 instead of its own.
CaughtAsUnexpected ==
  /\ Record("Unexpected", NoPath)
  /\ NextPeriod

\* A failure whose handler reports nothing for the period.
CaughtSilently ==
  /\ UNCHANGED results
  /\ NextPeriod

\* A timeout after which the download of the same period is tried again.
RetryAfterTimeout ==
  /\ Record("DownloadTimeout", NoPath)
  /\ pc' = "dl_trigger"
  /\ UNCHANGED <<i, ret, fail, msg>>

\* except PlaywrightTimeoutError: print("Download failed"); print("Retrying...")
\* (lines 227-230): nothing is retried.
ExceptDownloadTimeout ==
  /\ Record("DownloadTimeout", NoPath)
  /\ NextPeriod

\* except IndexError: print("Invalid month!")   (lines 232-235)
ExceptIndexError ==
  /\ Record("InvalidPeriod", NoPath)
  /\ NextPeriod

\* except Exception: print("Unexpected error"); print("Skipping to the next month.")
\* (lines 237-239)
ExceptPeriodException ==
  /\ Record("Unexpected", NoPath)
  /\ NextPeriod

\* the period filter (lines 198-202): wait_for(60 s) and click, then
\* type(get_month_name(i)) and Enter.  get_month_name is evaluated after the
\* click; "type_fails" is a failure of type or Enter after a successful click.
FilterAnswers == Answers \cup (IF PageOpen THEN {"type_fails"} ELSE {})

DL_Bulan ==
  /\ pc = "dl_bulan"
  /\ \E a \in FilterAnswers :
       /\ resp' = Append(resp, [period |-> i, filter |-> a, dl |-> "na", save |-> "na"])
       /\ IF a \in {"timeout", "error"}
            THEN ExceptPeriodException /\ UNCHANGED filterLog
            ELSE /\ filterLog' = Append(filterLog, PeriodFilterEntry(i))
                 /\ IF ~ValidMonth(i)
                      THEN ExceptIndexError
                      ELSE IF a = "type_fails"
                             THEN ExceptPeriodException
                             ELSE /\ pc' = "dl_trigger"
                                  /\ UNCHANGED <<i, results, ret, fail, msg>>
  /\ UNCHANGED <<sessVars, op, prompts, trail, entry, prev, cookieSrc,
                 start_month, end_month, triggers, handle, closes, today, auth>>

\* with page.expect_download(timeout=120 s): btn_download.click()  (lines 204-211)
DL_Trigger ==
  /\ pc = "dl_trigger"
  /\ \E a \in Answers :
       /\ resp' = [resp EXCEPT ![Len(resp)].dl = a]
       /\ CASE a = "ok" ->
                 /\ triggers' = Append(triggers, i)
                 /\ handle' = "detected"
                 /\ pc' = "dl_save"
                 /\ UNCHANGED <<i, results, ret, fail, msg>>
            [] a = "timeout" ->
                 /\ triggers' = Append(triggers, i)
                 /\ ExceptDownloadTimeout
                 /\ UNCHANGED handle
            [] OTHER ->
                 /\ ExceptPeriodException
                 /\ UNCHANGED <<triggers, handle>>
  /\ UNCHANGED <<sessVars, op, prompts, trail, entry, prev, cookieSrc,
                 start_month, end_month, filterLog, closes, today, auth>>

\* get_current_date(), get_output_path(...), download_info.value.save_as(path)
\* (lines 213-225).  The date is read anew for every period.
Dates == today .. (IF today < MaxDay THEN today + 1 ELSE today)

DL_Save ==
  /\ pc = "dl_save"
  /\ \E d \in Dates : \E a \in {"ok", "error"} :
       /\ today' = d
       /\ resp' = [resp EXCEPT ![Len(resp)].save = a]
       /\ IF a = "ok"
            THEN /\ handle' = "saved"
                 /\ Record("Success", OutputPath(d, i))
                 /\ NextPeriod
            ELSE /\ handle' = "unsaved"
                 /\ ExceptPeriodException
  /\ UNCHANGED <<sessVars, op, prompts, trail, entry, prev, cookieSrc,
                 start_month, end_month, filterLog, triggers, closes, auth>>

\* ------------------------------------------------------------ specification
\* The life of one instance: any sequence of calls.  Here download_realisasi
\* is called for short ranges starting at month 1; DownloadSpec below draws
\* its ranges from all of StartMonths and spans up to MaxSpan.
DownloadSteps ==
  \/ DL_Goto \/ DL_Skpd \/ DL_Loop \/ DL_Bulan \/ DL_Trigger \/ DL_Save

Next ==
  \/ Call_login_manual \/ LM_Init \/ LM_Goto \/ LM_Prompt \/ LM_Landmark
  \/ Call_login_with_env \/ LE_Init \/ LE_Goto \/ LE_Form \/ LE_Card
  \/ LE_Prompt \/ LE_Landmark
  \/ Call_login_with_cookies \/ LC_Init \/ LC_Load \/ LC_Goto
  \/ Call_close_browser \/ CB_Context \/ CB_Browser
  \/ Call_download_realisasi({FirstMonth}, LifecycleSpan)
  \/ DownloadSteps

Spec == Init /\ [][Next]_vars

\* download_realisasi alone, called any number of times on an instance that
\* was never initialized, or holds an open session, or holds a closed one.
InitDownload ==
  /\ \E s \in {"fresh", "open", "closed"} :
       /\ browser = (IF s = "fresh" THEN None ELSE 1)
       /\ context = browser /\ page = browser
       /\ launched = (IF s = "fresh" THEN 0 ELSE 1)
       /\ openB = (IF s = "open" THEN {1} ELSE {})
       /\ openC = openB /\ openP = openB
  /\ pc = "idle" /\ op = "none" /\ ret = Pending /\ fail = "none"
  /\ msg = "none" /\ prompts = 0 /\ trail = <<>>
  /\ auth = "none"
  /\ entry = Snapshot
  /\ prev = [op |-> "none", fail |-> "none"]
  /\ cookieSrc = "none"
  /\ start_month = 1 /\ end_month = 1 /\ i = 1
  /\ results = <<>> /\ resp = <<>> /\ filterLog = <<>> /\ triggers = <<>>
  /\ handle = "none"
  /\ closes = <<>>
  /\ today = 0

NextDownload ==
  \/ Call_download_realisasi(StartMonths, MaxSpan)
  \/ DownloadSteps

DownloadSpec == InitDownload /\ [][NextDownload]_vars

\* =================================================================== claims
InDownload == op = "download_realisasi"
Finished   == pc = "idle"
LoopSteps  == {"dl_loop", "dl_bulan", "dl_trigger", "dl_save"}

\* The listing page has been reached: goto and the title landmark succeeded.
ListingReached == InDownload /\ pc # "dl_goto" /\ fail # "navigation"

\* The all-units filter has been selected: the loop has been entered.
UnitsSelected == InDownload /\ (pc \in LoopSteps \/ (Finished /\ fail = "none"))

Kinds(rs) == [k \in 1 .. Len(rs) |-> rs[k].kind]

Ascending(rs) == \A k \in 1 .. Len(rs) : rs[k].period = start_month + k - 1

\* The outcome the answers r of the environment for one period lead to.
KindOf(r) ==
  IF r.filter \in {"timeout", "error"} THEN "Unexpected"
  ELSE IF ~ValidMonth(r.period) THEN "InvalidPeriod"
  ELSE IF r.filter = "type_fails" THEN "Unexpected"
  ELSE IF r.dl = "timeout" THEN "DownloadTimeout"
  ELSE IF r.dl = "error" THEN "Unexpected"
  ELSE IF r.save = "ok" THEN "Success"
  ELSE "Unexpected"

C2_TimeoutIsolated ==
  InDownload =>
    \A k \in 1 .. Len(resp) :
      /\ resp[k].dl = "timeout" =>
           /\ k <= Len(results)
           /\ results[k] = [period |-> start_month + k - 1,
                            kind |-> "DownloadTimeout", path |-> NoPath]
           /\ results[k].period < end_month =>
                \/ Len(resp) > k
                \/ pc \in {"dl_loop", "dl_bulan"} /\ i = results[k].period + 1
      /\ (resp[k].save = "ok") =>
           /\ k <= Len(results)
           /\ results[k].kind = "Success"
           /\ \E d \in 0 .. today :
                results[k].path = OutputPath(d, start_month + k - 1)

\* the example: range [1,3], period 2 times out, periods 1 and 3 are saved
C2_Witness ==
  /\ InDownload /\ Finished
  /\ start_month = 1 /\ end_month = 3
  /\ results = << [period |-> 1, kind |-> "Success", path |-> OutputPath(0, 1)],
                  [period |-> 2, kind |-> "DownloadTimeout", path |-> NoPath],
                  [period |-> 3, kind |-> "Success", path |-> OutputPath(0, 3)] >>

C4_AsStated ==
  (InDownload /\ start_month > end_month) =>
     results = <<>> /\ filterLog = <<>>

\* C4 amended: for start > end the result is empty, no period filter is
\* clicked or typed into and no download is triggered; the all-units filter
\* is still selected, once, when the listing page is reached.
C4_EmptyRange ==
  (InDownload /\ start_month > end_month) =>
     /\ results = <<>> /\ resp = <<>> /\ triggers = <<>>
     /\ \A k \in 1 .. Len(filterLog) : filterLog[k] = <<"skpd", 0>>
     /\ Len(filterLog) <= 1
     /\ (Finished /\ fail = "none") => filterLog = << <<"skpd", 0>> >>

C4_Witness ==
  /\ InDownload /\ Finished /\ fail = "none"
  /\ start_month > end_month
  /\ filterLog = << <<"skpd", 0>> >>
  /\ results = <<>>

\* C5: when navigation to the listing fails or its title never appears, the
\* call ends there: no filter touched, no download triggered, no outcome.
C5_NavigationAborts ==
  (InDownload /\ fail = "navigation") =>
     /\ Finished
     /\ filterLog = <<>> /\ triggers = <<>> /\ results = <<>> /\ resp = <<>>
     /\ handle = "none"

\* the title landmark times out on an open page, with a range of three periods
C5_Witness ==
  /\ InDownload /\ Finished /\ fail = "navigation"
  /\ msg = "page_load_timed_out"
  /\ PageOpen
  /\ start_month = 1 /\ end_month = 3

\* C6: after a navigation failure the caller of download_realisasi observes
\* something other than what it observes after a batch that ran to completion,
\* which is the normal return of None.
C6_FatalSurfaces ==
  (InDownload /\ Finished /\ fail = "navigation") => ret # ReturnNone

\* What C7 has the caller observe for each state of the cookie source.
CookieReport(src) ==
  CASE src = "missing" -> Raised("CookieSourceMissingError")
    [] src \in {"invalid_json", "not_a_cookie_list"} -> Raised("CookieFormatError")
    [] OTHER -> ReturnNone

\* C7: login_with_cookies reports a malformed cookie payload (invalid JSON, or
\* JSON that is no cookie list) as CookieFormatError and an absent source as
\* CookieSourceMissingError, both unlike each other and unlike success.
C7_CookieErrorsReported ==
  (op = "login_with_cookies" /\ Finished
      /\ fail \in {"cookie_missing", "cookie_format"}) =>
     ret = CookieReport(cookieSrc)

\* The failed login attempts of C8.
LoginFailures == {"cookie_missing", "cookie_format", "landmark", "account_card"}

\* C8: a login attempt that failed (cookie source missing or malformed, landmark
\* or account card never appearing) leaves the instance with a browser, context
\* and page, has closed nothing that was open and replaced no field that was
\* set when it began; and a login call that follows it keeps the same browser,
\* context and page and launches nothing.
C8_SessionReusable ==
  /\ (op \in Logins /\ Finished /\ fail \in LoginFailures) =>
        /\ browser # None /\ context # None /\ page # None
        /\ entry.openB \subseteq openB
        /\ entry.openC \subseteq openC
        /\ entry.openP \subseteq openP
        /\ entry.page # None =>
             /\ <<browser, context, page>> =
                   <<entry.browser, entry.context, entry.page>>
             /\ launched = entry.launched
        /\ entry.page = None =>
             page \in openP /\ context \in openC /\ browser \in openB
  /\ (prev.op \in Logins /\ prev.fail \in LoginFailures /\ op \in Logins) =>
        /\ entry.page # None
        /\ <<browser, context, page>> = <<entry.browser, entry.context, entry.page>>
        /\ launched = entry.launched
        /\ <<openB, openC, openP>> = <<entry.openB, entry.openC, entry.openP>>

\* login_manual waiting for the human on the page that the failed cookie login
\* of a fresh instance had opened
C8_Witness ==
  /\ prev = [op |-> "login_with_cookies", fail |-> "cookie_format"]
  /\ op = "login_manual" /\ pc = "lm_prompt"
  /\ launched = 1 /\ page = 1 /\ PageOpen

\* C9: close_browser returns normally when the instance never had a session
\* (no browser, no context), and when it is called right after a close_browser
\* call that returned.
C9_CloseIdempotent ==
  (op = "close_browser" /\ Finished) =>
     /\ (entry.browser = None /\ entry.context = None) => ret = ReturnNone
     /\ (prev = [op |-> "close_browser", fail |-> "none"]) => ret = ReturnNone

\* the second of two close_browser calls on a session that was open
C9_Witness ==
  /\ prev = [op |-> "close_browser", fail |-> "none"]
  /\ op = "close_browser" /\ Finished /\ ret = ReturnNone
  /\ page # None /\ ~PageOpen
  /\ closes = <<"context", "browser">>

\* C10: whenever close_browser ends on an instance that holds a browser, the
\* browser's close() has been attempted, also when the context's close()
\* raised or there was no context.
C10_BrowserCloseAttempted ==
  (op = "close_browser" /\ Finished /\ browser # None) =>
     \E k \in 1 .. Len(closes) : closes[k] = "browser"

\* C11: at most one browser launched for the instance is open at any time,
\* also when _initialize_browser failed part-way in an earlier login call.
C11_OneBrowser == Cardinality(openB) <= 1

Has(seq, x) == \E k \in 1 .. Len(seq) : seq[k] = x

\* C12: login_with_cookies never waits for the post-login landmark and never
\* makes the session verified: alone it takes a session from "none" to
\* "cookies_injected"; the session becomes verified only in a login_manual or
\* login_with_env call that ended with its landmark wait succeeding.
C12_CookiesUnverified ==
  /\ op = "login_with_cookies" =>
        /\ ~Has(trail, "landmark")
        /\ \/ auth = entry.auth
           \/ /\ entry.auth = "none" /\ auth = "cookies_injected"
              /\ Finished /\ fail = "none"
        /\ (Finished /\ fail = "none" /\ entry.auth = "none") =>
              auth = "cookies_injected"
  /\ (auth = "verified" /\ entry.auth # "verified") =>
        /\ op \in {"login_manual", "login_with_env"}
        /\ Finished /\ fail = "none"
        /\ trail # <<>> /\ trail[Len(trail)] = "landmark"

\* a fresh instance after one successful login_with_cookies
C12_Witness ==
  /\ prev.op = "none"
  /\ op = "login_with_cookies" /\ Finished /\ fail = "none"
  /\ cookieSrc = "valid" /\ PageOpen
  /\ auth = "cookies_injected"

\* C13: when download_realisasi starts the next period, or returns, the
\* download handle detected for the period before has been saved or discarded,
\* also when computing the output path or save_as raised.
C13_HandleReleased ==
  (InDownload /\ pc \in {"dl_loop", "dl_bulan", "idle"}) =>
     handle \in {"none", "saved", "discarded"}

\* C14: all files saved by one invocation lie in one directory, also when the
\* date changes between two periods, and a file's name in it is given by its
\* period alone.
C14_OneDirectory ==
  InDownload =>
    \A j, k \in 1 .. Len(results) :
      (results[j].kind = "Success" /\ results[k].kind = "Success") =>
         /\ results[j].path[1] = results[k].path[1]
         /\ results[j].path[2] = results[k].path[2]
         /\ results[k].path[3] = 2024
         /\ results[k].path[4] = results[k].period

\* C15: only login_manual and login_with_env wait for the human, once in a
\* call that reaches its prompt and not at all in one that fails before it;
\* login_with_cookies, close_browser and download_realisasi never do.
C15_HumanPrompts ==
  /\ op \notin {"login_manual", "login_with_env"} =>
        prompts = 0 /\ ~Has(trail, "prompt")
  /\ op \in {"login_manual", "login_with_env"} =>
        /\ prompts = (IF Has(trail, "prompt") THEN 1 ELSE 0)
        /\ pc \in {"lm_landmark", "le_landmark"} => prompts = 1
        /\ pc \in {"lm_init", "lm_goto", "lm_prompt", "le_init", "le_goto",
                   "le_form", "le_card", "le_prompt"} => prompts = 0
        /\ (Finished /\ fail \in {"none", "landmark"}) => prompts = 1
        /\ (Finished /\ fail \in {"launch", "navigation", "form", "account_card"})
              => prompts = 0

\* login_with_env that got through its one prompt and its landmark
C15_Witness ==
  /\ op = "login_with_env" /\ Finished /\ fail = "none"
  /\ prompts = 1
  /\ trail = <<"goto", "form", "card", "prompt", "landmark">>

UnitsClicks == {k \in 1 .. Len(filterLog) : filterLog[k] = UnitsFilterEntry}

\* C16: the all-units filter is selected at most once in an invocation and
\* exactly once in every invocation that goes on to its periods; that is after
\* the listing landmark was confirmed and before any period is handled, and
\* every later filter interaction is with the period filter of the period
\* being handled, successful or not.
C16_UnitsFilterOnce ==
  InDownload =>
    /\ UnitsClicks \subseteq {1}
    /\ UnitsSelected => UnitsClicks = {1}
    /\ (pc = "dl_goto" \/ fail = "navigation") => filterLog = <<>>
    /\ pc = "dl_skpd" => (filterLog = <<>> /\ resp = <<>>)
    /\ \A k \in 2 .. Len(filterLog) :
         \E n \in 1 .. Len(resp) :
           filterLog[k] = <<"bulan", resp[n].period>>

\* a finished batch of three periods, one saved and two failed
C16_Witness ==
  /\ InDownload /\ Finished /\ fail = "none"
  /\ start_month = 1 /\ end_month = 3
  /\ Kinds(results) = <<"Success", "DownloadTimeout", "Unexpected">>
  /\ filterLog = << <<"skpd", 0>>, <<"bulan", 1>>, <<"bulan", 2>>, <<"bulan", 3>> >>

TimedOut(p) == \E n \in 1 .. Len(resp) : resp[n].period = p /\ resp[n].dl = "timeout"

\* the period never got as far as a click on Download that was answered
NotTriggered(p) ==
  \A n \in 1 .. Len(resp) : resp[n].period = p => resp[n].dl \in {"na", "error"}

\* C17 as stated: each period is triggered at most once, and the trigger that
\* follows a timeout at period i is for period i+1.
C17_AsStated ==
  InDownload =>
    /\ \A j, k \in 1 .. Len(triggers) : triggers[j] = triggers[k] => j = k
    /\ \A k \in 1 .. Len(triggers) - 1 :
         TimedOut(triggers[k]) => triggers[k + 1] = triggers[k] + 1

\* C17 amended: no retry: the periods for which a download is triggered are
\* strictly ascending, so each is triggered at most once, and the trigger that
\* follows a timeout at period i is for the first period after i that got as
\* far as its download (i+1 unless i+1 failed before that).
C17_NoRetry ==
  InDownload =>
    /\ \A k \in 1 .. Len(triggers) - 1 :
         /\ triggers[k] < triggers[k + 1]
         /\ \A p \in (triggers[k] + 1) .. (triggers[k + 1] - 1) : NotTriggered(p)
    /\ \A k \in 1 .. Len(triggers) :
         start_month <= triggers[k] /\ triggers[k] <= end_month

\* month 1 timed out, month 2 failed at its filter, month 3 was triggered
C17_Witness ==
  /\ InDownload
  /\ start_month = 1
  /\ triggers = <<1, 3>>
  /\ TimedOut(1)
  /\ Kinds(results) = <<"DownloadTimeout", "Unexpected", "Success">>

EnvOrder == <<"goto", "form", "card", "prompt", "landmark">>

\* C18: login_with_env submits the credentials, selects the account card,
\* waits for the human and only then waits for the landmark; when the account
\* card never appears the call fails there, with no prompt issued and no
\* landmark wait begun.
C18_EnvOrder ==
  op = "login_with_env" =>
    /\ Len(trail) <= Len(EnvOrder)
    /\ \A k \in 1 .. Len(trail) : trail[k] = EnvOrder[k]
    /\ Has(trail, "landmark") => prompts = 1
    /\ fail = "account_card" =>
         /\ Finished /\ ret.kind = "raise"
         /\ trail = <<"goto", "form">>
         /\ prompts = 0

\* the account card never appeared
C18_Witness ==
  /\ op = "login_with_env" /\ Finished /\ fail = "account_card"
  /\ ret = Raised("TimeoutError")
  /\ trail = <<"goto", "form">>
  /\ PageOpen

Fields == <<browser, context, page>>
EntryFields == <<entry.browser, entry.context, entry.page>>

\* C20 as stated: close_browser leaves the fields unchanged, and a login call
\* that follows a close_browser call launches no browser and runs on a closed
\* page.
C20_AsStated ==
  /\ op = "close_browser" => Fields = EntryFields
  /\ (prev.op = "close_browser" /\ op \in Logins) =>
        launched = entry.launched /\ ~PageOpen

\* C20 amended: close_browser leaves browser, context and page unchanged (what
\* was set stays set), and when it returns on an instance that holds a page,
\* page, context and browser are closed; from then on every login call keeps
\* the fields, launches nothing, never gets past its first use of the closed
\* page or context and does not succeed.  (On an instance whose page is None a
\* login after close_browser launches a browser as usual.)
C20_ClosedIsTerminal ==
  /\ op = "close_browser" =>
        /\ Fields = EntryFields /\ launched = entry.launched
        /\ (Finished /\ fail = "none" /\ page # None) =>
              page \notin openP /\ context \notin openC /\ browser \notin openB
  /\ (op \in Logins /\ entry.page # None /\ entry.page \notin entry.openP) =>
        /\ Fields = EntryFields /\ launched = entry.launched
        /\ <<openB, openC, openP>> = <<entry.openB, entry.openC, entry.openP>>
        /\ trail = <<>>
        /\ auth = entry.auth
        /\ Finished => fail \in {"navigation", "other", "cookie_missing", "cookie_format"}

\* login_manual right after close_browser closed an open session
C20_Witness ==
  /\ prev = [op |-> "close_browser", fail |-> "none"]
  /\ op = "login_manual" /\ Finished /\ fail = "navigation"
  /\ ret = Raised("Error")
  /\ page = 1 /\ launched = 1 /\ openB = {}
====
